---- MODULE Spec2Model ----
(***************************************************************************)
(* Portfolio site content: the exported `projects` array, the exported     *)
(* `bookData` array and the blog posts (front-matter plus body).           *)
(*                                                                         *)
(* The content is static.  The only thing that ever happens to it is its   *)
(* evaluation: each array literal is evaluated element by element, each    *)
(* object literal property by property in source order, and each post is   *)
(* read front-matter line by front-matter line, then its body.  Text is    *)
(* modelled as a sequence of one-character strings so that its shape       *)
(* (emptiness, hex digits, URL scheme, calendar date) can be examined.     *)
(***************************************************************************)
EXTENDS Integers, Sequences, FiniteSets, TLC

(* ---------------------------------------------------------------------- *)
(* Values                                                                 *)
(* ---------------------------------------------------------------------- *)

\* a string value: a double-quoted literal (TS) or a plain / quoted scalar (YAML)
StrV(s) == [type |-> "string", val |-> s]

\* a boolean value: the YAML scalars true and false
BoolV(b) == [type |-> "boolean", val |-> b]

\* an array value: a YAML flow sequence [ ... ]
ArrV(a) == [type |-> "array", val |-> a]

\* the object { } before any property is evaluated
EmptyObject == <<>>

\* evaluating `key: value` inside an object literal / a front-matter block:
\* the property is created, or overwritten when the key occurred before
SetProperty(o, key, v) ==
  [x \in (DOMAIN o) \cup {key} |-> IF x = key THEN v ELSE o[x]]

(* ---------------------------------------------------------------------- *)
(* src/utils/projects.ts: the `projects` array literal                     *)
(* ---------------------------------------------------------------------- *)

\* projects.ts:4-12, properties in source order
Kompa ==
  << <<"name", StrV(<<"K", "o", "m", "p", "a">>)>>,
     <<"description", StrV(<<"A", " ", "c", "o", "m", "p", "a", "r", "a", "b", "l", "e", "s", " ", "m", "a", "r", "k", "e", "t", "p", "l", "a", "c", "e", " ", "f", "o", "r", " ", "t", "h", "e", " ", "b", "u", "i", "l", "t", " ", "e", "n", "v", "i", "r", "o", "n", "m", "e", "n", "t", ",", " ", "p", "r", "o", "v", "i", "d", "i", "n", "g", " ", "a", "c", "c", "e", "s", "s", " ", "t", "o", " ", "v", "e", "r", "i", "f", "i", "e", "d", " ", "p", "r", "o", "p", "e", "r", "t", "y", " ", "d", "a", "t", "a", " ", "a", "n", "d", " ", "i", "n", "s", "i", "g", "h", "t", "s", ".">>)>>,
     <<"accent", StrV(<<"#", "F", "F", "7", "E", "4", "4">>)>>,
     <<"repo", StrV(<<>>)>>,
     <<"live", StrV(<<"h", "t", "t", "p", "s", ":", "/", "/", "k", "o", "m", "p", "a", "-", "w", "e", "b", ".", "v", "e", "r", "c", "e", "l", ".", "a", "p", "p", "/">>)>>,
     <<"image", StrV(<<>>)>> >>

\* projects.ts:13-21, properties in source order
YenkoStudio ==
  << <<"name", StrV(<<"Y", "e", "n", "k", "o", " ", "S", "t", "u", "d", "i", "o">>)>>,
     <<"description", StrV(<<"A", " ", "p", "l", "a", "t", "f", "o", "r", "m", " ", "t", "h", "a", "t", " ", "t", "r", "a", "n", "s", "f", "o", "r", "m", "s", " ", "c", "r", "e", "a", "t", "i", "v", "e", " ", "i", "d", "e", "a", "s", " ", "i", "n", "t", "o", " ", "d", "i", "g", "i", "t", "a", "l", " ", "p", "r", "o", "d", "u", "c", "t", "s", " ", "t", "h", "r", "o", "u", "g", "h", " ", "t", "e", "c", "h", "n", "o", "l", "o", "g", "y", " ", "a", "n", "d", " ", "d", "e", "s", "i", "g", "n", ".">>)>>,
     <<"live", StrV(<<"h", "t", "t", "p", "s", ":", "/", "/", "y", "e", "n", "k", "o", ".", "s", "t", "u", "d", "i", "o">>)>>,
     <<"image", StrV(<<>>)>>,
     <<"repo", StrV(<<>>)>>,
     <<"accent", StrV(<<"#", "F", "F", "7", "E", "4", "4">>)>> >>

\* projects.ts:23-31, properties in source order
VwazaWeb ==
  << <<"name", StrV(<<"V", "w", "a", "z", "a", " ", "W", "e", "b">>)>>,
     <<"description", StrV(<<"T", "h", "e", " ", "m", "a", "i", "n", " ", "s", "i", "t", "e", " ", "f", "o", "r", " ", "V", "w", "a", "z", "a", ",", " ", "s", "h", "o", "w", "c", "a", "s", "i", "n", "g", " ", "i", "t", "s", " ", "m", "i", "s", "s", "i", "o", "n", ",", " ", "f", "e", "a", "t", "u", "r", "e", "s", ",", " ", "a", "n", "d", " ", "o", "p", "p", "o", "r", "t", "u", "n", "i", "t", "i", "e", "s", " ", "f", "o", "r", " ", "A", "f", "r", "i", "c", "a", "n", " ", "c", "r", "e", "a", "t", "o", "r", "s", ".">>)>>,
     <<"accent", StrV(<<"#", "F", "F", "7", "E", "4", "4">>)>>,
     <<"repo", StrV(<<>>)>>,
     <<"live", StrV(<<"h", "t", "t", "p", "s", ":", "/", "/", "v", "w", "a", "z", "a", ".", "c", "o", "m", "/">>)>>,
     <<"image", StrV(<<>>)>> >>

\* projects.ts:32-39, properties in source order
VwazaMusicPlayer ==
  << <<"name", StrV(<<"V", "w", "a", "z", "a", " ", "M", "u", "s", "i", "c", " ", "P", "l", "a", "y", "e", "r">>)>>,
     <<"description", StrV(<<"A", "n", " ", "o", "n", "l", "i", "n", "e", " ", "m", "u", "s", "i", "c", " ", "p", "l", "a", "y", "e", "r", " ", "f", "o", "r", " ", "s", "t", "r", "e", "a", "m", "i", "n", "g", " ", "a", "n", "d", " ", "d", "i", "s", "c", "o", "v", "e", "r", "i", "n", "g", " ", "s", "o", "n", "g", "s", " ", "f", "r", "o", "m", " ", "A", "f", "r", "i", "c", "a", "n", " ", "a", "r", "t", "i", "s", "t", "s", ".">>)>>,
     <<"accent", StrV(<<"#", "F", "F", "7", "E", "4", "4">>)>>,
     <<"repo", StrV(<<>>)>>,
     <<"live", StrV(<<"h", "t", "t", "p", "s", ":", "/", "/", "m", "u", "s", "i", "c", ".", "v", "w", "a", "z", "a", ".", "c", "o", "m", "/">>)>>,
     <<"image", StrV(<<>>)>> >>

\* projects.ts:40-48, properties in source order
M11Collections ==
  << <<"name", StrV(<<"M", "1", "1", " ", "C", "o", "l", "l", "e", "c", "t", "i", "o", "n", "s">>)>>,
     <<"description", StrV(<<"A", " ", "l", "u", "x", "u", "r", "y", " ", "r", "e", "n", "t", "a", "l", " ", "p", "l", "a", "t", "f", "o", "r", "m", " ", "o", "f", "f", "e", "r", "i", "n", "g", " ", "h", "i", "g", "h", "-", "e", "n", "d", " ", "h", "o", "m", "e", "s", " ", "a", "n", "d", " ", "h", "o", "t", "e", "l", "-", "s", "t", "y", "l", "e", " ", "s", "t", "a", "y", "s", " ", "f", "o", "r", " ", "m", "o", "d", "e", "r", "n", " ", "t", "r", "a", "v", "e", "l", "e", "r", "s", ".">>)>>,
     <<"accent", StrV(<<"#", "F", "F", "7", "E", "4", "4">>)>>,
     <<"repo", StrV(<<>>)>>,
     <<"live", StrV(<<"h", "t", "t", "p", "s", ":", "/", "/", "w", "w", "w", ".", "m", "1", "1", "c", "o", "l", "l", "e", "c", "t", "i", "o", "n", ".", "c", "o", "m", "/">>)>>,
     <<"image", StrV(<<>>)>> >>

\* projects.ts:49-57, properties in source order
NICComplaintsHub ==
  << <<"name", StrV(<<"N", "I", "C", " ", "C", "o", "m", "p", "l", "a", "i", "n", "t", "s", " ", "H", "u", "b">>)>>,
     <<"description", StrV(<<"A", " ", "p", "o", "r", "t", "a", "l", " ", "f", "o", "r", " ", "G", "h", "a", "n", "a", "i", "a", "n", "s", " ", "t", "o", " ", "f", "i", "l", "e", " ", "a", "n", "d", " ", "t", "r", "a", "c", "k", " ", "c", "o", "m", "p", "l", "a", "i", "n", "t", "s", " ", "a", "g", "a", "i", "n", "s", "t", " ", "i", "n", "s", "u", "r", "a", "n", "c", "e", " ", "c", "o", "m", "p", "a", "n", "i", "e", "s", " ", "a", "n", "d", " ", "a", "g", "e", "n", "t", "s", ".">>)>>,
     <<"accent", StrV(<<"#", "F", "F", "7", "E", "4", "4">>)>>,
     <<"repo", StrV(<<>>)>>,
     <<"live", StrV(<<"h", "t", "t", "p", "s", ":", "/", "/", "n", "i", "c", "c", "o", "m", "p", "l", "a", "i", "n", "t", "s", "h", "u", "b", ".", "c", "o", "m", "/">>)>>,
     <<"image", StrV(<<>>)>> >>

\* projects_literal with the name of the second record left empty
projects_emptyName ==
  << Kompa,
     [YenkoStudio EXCEPT ![1] = <<"name", StrV(<<>>)>>],
     VwazaWeb,
     VwazaMusicPlayer,
     M11Collections,
     NICComplaintsHub >>

\* projects_literal with the `image` property of the third record left out
projects_missingImage ==
  << Kompa,
     YenkoStudio,
     SubSeq(VwazaWeb, 1, 5),
     VwazaMusicPlayer,
     M11Collections,
     NICComplaintsHub >>

\* projects_literal with the scheme of the first record's `live` left out
projects_liveWithoutScheme ==
  << [Kompa EXCEPT ![5] = <<"live", StrV(SubSeq(Kompa[5][2].val, 9, Len(Kompa[5][2].val)))>>],
     YenkoStudio,
     VwazaWeb,
     VwazaMusicPlayer,
     M11Collections,
     NICComplaintsHub >>

\* projects_literal with the leading # of the last record's `accent` left out
projects_accentWithoutHash ==
  << Kompa,
     YenkoStudio,
     VwazaWeb,
     VwazaMusicPlayer,
     M11Collections,
     [NICComplaintsHub EXCEPT ![3] = <<"accent", StrV(Tail(NICComplaintsHub[3][2].val))>>] >>

\* projects_literal with the fourth record carrying the third one's name
projects_duplicateName ==
  << Kompa,
     YenkoStudio,
     VwazaWeb,
     [VwazaMusicPlayer EXCEPT ![1] = VwazaWeb[1]],
     M11Collections,
     NICComplaintsHub >>

\* projects_literal with the `live` link of the fifth record left empty
projects_withoutLink ==
  << Kompa,
     YenkoStudio,
     VwazaWeb,
     VwazaMusicPlayer,
     [M11Collections EXCEPT ![5] = <<"live", StrV(<<>>)>>],
     NICComplaintsHub >>

\* projects.ts:3-58, the elements of the array literal in source order
projects_literal ==
  << Kompa,
     YenkoStudio,
     VwazaWeb,
     VwazaMusicPlayer,
     M11Collections,
     NICComplaintsHub >>

(* ---------------------------------------------------------------------- *)
(* the `bookData` array literal                                           *)
(* ---------------------------------------------------------------------- *)

\* bookData lines 2-6
BookHomegoing ==
  << <<"title", StrV(<<"H", "o", "m", "e", "g", "o", "i", "n", "g">>)>>,
     <<"author", StrV(<<"Y", "a", "a", " ", "G", "y", "a", "s", "i">>)>>,
     <<"status", StrV(<<"U", "p", " ", "N", "e", "x", "t">>)>> >>

\* bookData lines 7-11
BookTheLeavers ==
  << <<"title", StrV(<<"T", "h", "e", " ", "L", "e", "a", "v", "e", "r", "s">>)>>,
     <<"author", StrV(<<"L", "i", "s", "a", " ", "K", "o">>)>>,
     <<"status", StrV(<<"R", "e", "a", "d", "i", "n", "g">>)>> >>

\* bookData lines 12-16
BookGoInPractice ==
  << <<"title", StrV(<<"G", "o", " ", "i", "n", " ", "P", "r", "a", "c", "t", "i", "c", "e">>)>>,
     <<"author", StrV(<<"N", ".", "K", "o", "z", "y", "r", "a", ",", " ", "e", "t", " ", "a", "l">>)>>,
     <<"status", StrV(<<"R", "e", "a", "d", "i", "n", "g">>)>> >>

\* bookData lines 17-21
BookLittleFiresEverywhere ==
  << <<"title", StrV(<<"L", "i", "t", "t", "l", "e", " ", "F", "i", "r", "e", "s", " ", "E", "v", "e", "r", "y", "w", "h", "e", "r", "e">>)>>,
     <<"author", StrV(<<"C", "e", "l", "e", "s", "t", "e", " ", "N", "g">>)>>,
     <<"status", StrV(<<"F", "i", "n", "i", "s", "h", "e", "d">>)>> >>

\* bookData lines 22-26
BookChildrenOfBloodBone ==
  << <<"title", StrV(<<"C", "h", "i", "l", "d", "r", "e", "n", " ", "o", "f", " ", "B", "l", "o", "o", "d", " ", "&", " ", "B", "o", "n", "e">>)>>,
     <<"author", StrV(<<"T", "o", "m", "i", " ", "A", "d", "e", "y", "e", "m", "i">>)>>,
     <<"status", StrV(<<"F", "i", "n", "i", "s", "h", "e", "d">>)>> >>

\* bookData lines 27-31
BookALittleLife ==
  << <<"title", StrV(<<"A", " ", "L", "i", "t", "t", "l", "e", " ", "L", "i", "f", "e">>)>>,
     <<"author", StrV(<<"H", "a", "n", "y", "a", " ", "Y", "a", "n", "a", "g", "i", "h", "a", "r", "a">>)>>,
     <<"status", StrV(<<"F", "i", "n", "i", "s", "h", "e", "d">>)>> >>

\* bookData lines 32-36
BookTheThreeBodyProblem ==
  << <<"title", StrV(<<"T", "h", "e", " ", "T", "h", "r", "e", "e", "-", "B", "o", "d", "y", " ", "P", "r", "o", "b", "l", "e", "m">>)>>,
     <<"author", StrV(<<"C", "i", "x", "i", "n", " ", "L", "i", "u">>)>>,
     <<"status", StrV(<<"F", "i", "n", "i", "s", "h", "e", "d">>)>> >>

\* bookData lines 37-41
BookTheVagrants ==
  << <<"title", StrV(<<"T", "h", "e", " ", "V", "a", "g", "r", "a", "n", "t", "s">>)>>,
     <<"author", StrV(<<"Y", "i", "y", "u", "n", " ", "L", "i">>)>>,
     <<"status", StrV(<<"F", "i", "n", "i", "s", "h", "e", "d">>)>> >>

\* bookData lines 42-46
BookAMinorChorus ==
  << <<"title", StrV(<<"A", " ", "M", "i", "n", "o", "r", " ", "C", "h", "o", "r", "u", "s">>)>>,
     <<"author", StrV(<<"B", "i", "l", "l", "y", "-", "R", "a", "y", " ", "B", "e", "l", "c", "o", "u", "r", "t">>)>>,
     <<"status", StrV(<<"F", "i", "n", "i", "s", "h", "e", "d">>)>> >>

\* bookData lines 47-51
BookCoExistence ==
  << <<"title", StrV(<<"C", "o", "-", "e", "x", "i", "s", "t", "e", "n", "c", "e">>)>>,
     <<"author", StrV(<<"B", "i", "l", "l", "y", "-", "R", "a", "y", " ", "B", "e", "l", "c", "o", "u", "r", "t">>)>>,
     <<"status", StrV(<<"F", "i", "n", "i", "s", "h", "e", "d">>)>> >>

\* bookData lines 52-56
BookTheHandmaidSTale ==
  << <<"title", StrV(<<"T", "h", "e", " ", "H", "a", "n", "d", "m", "a", "i", "d", "'", "s", " ", "T", "a", "l", "e">>)>>,
     <<"author", StrV(<<"M", "a", "r", "g", "a", "r", "e", "t", " ", "A", "t", "w", "o", "o", "d">>)>>,
     <<"status", StrV(<<"F", "i", "n", "i", "s", "h", "e", "d">>)>> >>

\* bookData lines 57-61
BookNormalPeople ==
  << <<"title", StrV(<<"N", "o", "r", "m", "a", "l", " ", "P", "e", "o", "p", "l", "e">>)>>,
     <<"author", StrV(<<"S", "a", "l", "l", "y", " ", "R", "o", "o", "n", "e", "y">>)>>,
     <<"status", StrV(<<"F", "i", "n", "i", "s", "h", "e", "d">>)>> >>

\* bookData lines 62-66
BookWhereTheCrawdadsSing ==
  << <<"title", StrV(<<"W", "h", "e", "r", "e", " ", "T", "h", "e", " ", "C", "r", "a", "w", "d", "a", "d", "s", " ", "S", "i", "n", "g">>)>>,
     <<"author", StrV(<<"D", "e", "l", "i", "a", " ", "O", "w", "e", "n", "s">>)>>,
     <<"status", StrV(<<"F", "i", "n", "i", "s", "h", "e", "d">>)>> >>

\* bookData lines 67-71
BookBlackMatter ==
  << <<"title", StrV(<<"B", "l", "a", "c", "k", " ", "M", "a", "t", "t", "e", "r">>)>>,
     <<"author", StrV(<<"B", "l", "a", "k", "e", " ", "C", "r", "o", "u", "c", "h">>)>>,
     <<"status", StrV(<<"F", "i", "n", "i", "s", "h", "e", "d">>)>> >>

\* bookData lines 72-76
BookCarrie ==
  << <<"title", StrV(<<"C", "a", "r", "r", "i", "e">>)>>,
     <<"author", StrV(<<"S", "t", "e", "p", "h", "e", "n", " ", "K", "i", "n", "g">>)>>,
     <<"status", StrV(<<"F", "i", "n", "i", "s", "h", "e", "d">>)>> >>

\* bookData lines 77-81
BookSleepingBeauty ==
  << <<"title", StrV(<<"S", "l", "e", "e", "p", "i", "n", "g", " ", "B", "e", "a", "u", "t", "y">>)>>,
     <<"author", StrV(<<"S", "t", "e", "p", "h", "e", "n", " ", "K", "i", "n", "g", ",", " ", "O", "w", "e", "n", " ", "K", "i", "n", "g">>)>>,
     <<"status", StrV(<<"F", "i", "n", "i", "s", "h", "e", "d">>)>> >>

\* bookData lines 82-86
BookTattooistOfAuschwitz ==
  << <<"title", StrV(<<"T", "a", "t", "t", "o", "o", "i", "s", "t", " ", "o", "f", " ", "A", "u", "s", "c", "h", "w", "i", "t", "z">>)>>,
     <<"author", StrV(<<"H", "e", "a", "t", "h", "e", "r", " ", "M", "o", "r", "r", "i", "s">>)>>,
     <<"status", StrV(<<"F", "i", "n", "i", "s", "h", "e", "d">>)>> >>

\* bookData lines 87-91
BookFiftyFifty ==
  << <<"title", StrV(<<"F", "i", "f", "t", "y", " ", "F", "i", "f", "t", "y">>)>>,
     <<"author", StrV(<<"J", "a", "m", "e", "s", " ", "P", "a", "t", "t", "e", "r", "s", "o", "n", ",", " ", "C", "a", "n", "d", "i", "c", "e", " ", "F", "o", "x">>)>>,
     <<"status", StrV(<<"F", "i", "n", "i", "s", "h", "e", "d">>)>> >>

\* bookData_literal with the status of one record written in lower case
bookData_lowerCaseStatus ==
  << BookHomegoing,
     BookTheLeavers,
     BookGoInPractice,
     BookLittleFiresEverywhere,
     BookChildrenOfBloodBone,
     BookALittleLife,
     BookTheThreeBodyProblem,
     BookTheVagrants,
     BookAMinorChorus,
     BookCoExistence,
     BookTheHandmaidSTale,
     BookNormalPeople,
     BookWhereTheCrawdadsSing,
     BookBlackMatter,
     [BookCarrie EXCEPT ![3] = <<"status", StrV(<<"f", "i", "n", "i", "s", "h", "e", "d">>)>>],
     BookSleepingBeauty,
     BookTattooistOfAuschwitz,
     BookFiftyFifty >>

\* bookData_literal with an `id` property added to the first record
bookData_withId ==
  << Append(BookHomegoing, <<"id", StrV(<<"1">>)>>),
     BookTheLeavers,
     BookGoInPractice,
     BookLittleFiresEverywhere,
     BookChildrenOfBloodBone,
     BookALittleLife,
     BookTheThreeBodyProblem,
     BookTheVagrants,
     BookAMinorChorus,
     BookCoExistence,
     BookTheHandmaidSTale,
     BookNormalPeople,
     BookWhereTheCrawdadsSing,
     BookBlackMatter,
     BookCarrie,
     BookSleepingBeauty,
     BookTattooistOfAuschwitz,
     BookFiftyFifty >>

\* the elements of the bookData array literal in source order
bookData_literal ==
  << BookHomegoing,
     BookTheLeavers,
     BookGoInPractice,
     BookLittleFiresEverywhere,
     BookChildrenOfBloodBone,
     BookALittleLife,
     BookTheThreeBodyProblem,
     BookTheVagrants,
     BookAMinorChorus,
     BookCoExistence,
     BookTheHandmaidSTale,
     BookNormalPeople,
     BookWhereTheCrawdadsSing,
     BookBlackMatter,
     BookCarrie,
     BookSleepingBeauty,
     BookTattooistOfAuschwitz,
     BookFiftyFifty >>

(* ---------------------------------------------------------------------- *)
(* the blog posts                                                         *)
(* ---------------------------------------------------------------------- *)

\* projects.ts:60-66, one <<key, raw scalar text>> per line
MaximalistFrontMatter ==
  << <<"title", <<"W", "h", "y", " ", "I", "'", "m", " ", "N", "o", " ", "L", "o", "n", "g", "e", "r", " ", "a", " ", "G", "r", "a", "p", "h", "Q", "L", " ", "M", "a", "x", "i", "m", "a", "l", "i", "s", "t">>>>,
     <<"description", <<"G", "r", "a", "p", "h", "Q", "L", " ", "f", "e", "e", "l", "s", " ", "l", "i", "k", "e", " ", "m", "a", "g", "i", "c", " ", "u", "n", "t", "i", "l", " ", "y", "o", "u", " ", "h", "i", "t", " ", "p", "r", "o", "d", "u", "c", "t", "i", "o", "n", ".", " ", "H", "e", "r", "e", " ", "a", "r", "e", " ", "t", "h", "e", " ", "h", "a", "r", "d", " ", "l", "e", "s", "s", "o", "n", "s", " ", "I", " ", "l", "e", "a", "r", "n", "e", "d", " ", "a", "b", "o", "u", "t", " ", "s", "e", "c", "u", "r", "i", "t", "y", ",", " ", "i", "n", "t", "r", "o", "s", "p", "e", "c", "t", "i", "o", "n", ",", " ", "a", "n", "d", " ", "k", "n", "o", "w", "i", "n", "g", " ", "w", "h", "e", "n", " ", "t", "o", " ", "j", "u", "s", "t", " ", "u", "s", "e", " ", "R", "E", "S", "T", ".">>>>,
     <<"publishDate", <<"D", "e", "c", "e", "m", "b", "e", "r", " ", "1", "7", ",", " ", "2", "0", "2", "5">>>>,
     <<"tags", <<"[", "\"", "s", "o", "f", "t", "w", "a", "r", "e", " ", "d", "e", "v", "e", "l", "o", "p", "m", "e", "n", "t", "\"", ",", " ", "\"", "g", "r", "a", "p", "h", "q", "l", "\"", "]">>>>,
     <<"draft", <<"f", "a", "l", "s", "e">>>> >>

\* projects.ts:67-165, the markdown links [text](href) of the body, in order
MaximalistBodyLinks ==
  <<  >>

\* part_000:1-7, one <<key, raw scalar text>> per line
TypeSafeFrontMatter1 ==
  << <<"title", <<"T", "y", "p", "e", "-", "S", "a", "f", "e", " ", "G", "r", "a", "p", "h", "Q", "L", " ", "W", "i", "t", "h", "o", "u", "t", " ", "E", "x", "p", "o", "s", "i", "n", "g", " ", "Y", "o", "u", "r", " ", "S", "c", "h", "e", "m", "a">>>>,
     <<"description", <<"H", "o", "w", " ", "t", "o", " ", "s", "e", "t", " ", "u", "p", " ", "g", "r", "a", "p", "h", "q", "l", "-", "r", "e", "q", "u", "e", "s", "t", " ", "a", "n", "d", " ", "G", "r", "a", "p", "h", "Q", "L", " ", "C", "o", "d", "e", " ", "G", "e", "n", "e", "r", "a", "t", "o", "r", " ", "i", "n", " ", "a", " ", "B", "F", "F", " ", "p", "a", "t", "t", "e", "r", "n", " ", "s", "o", " ", "y", "o", "u", " ", "g", "e", "t", " ", "f", "u", "l", "l", " ", "t", "y", "p", "e", " ", "s", "a", "f", "e", "t", "y", " ", "w", "i", "t", "h", "o", "u", "t", " ", "l", "e", "a", "k", "i", "n", "g", " ", "y", "o", "u", "r", " ", "s", "c", "h", "e", "m", "a", " ", "t", "o", " ", "t", "h", "e", " ", "b", "r", "o", "w", "s", "e", "r", ".">>>>,
     <<"publishDate", <<"D", "e", "c", "e", "m", "b", "e", "r", " ", "1", "7", ",", " ", "2", "0", "2", "5">>>>,
     <<"tags", <<"[", "\"", "s", "o", "f", "t", "w", "a", "r", "e", " ", "d", "e", "v", "e", "l", "o", "p", "m", "e", "n", "t", "\"", ",", " ", "\"", "g", "r", "a", "p", "h", "q", "l", "\"", ",", " ", "\"", "t", "y", "p", "e", "s", "c", "r", "i", "p", "t", "\"", "]">>>>,
     <<"draft", <<"t", "r", "u", "e">>>> >>

\* part_000:8-269, the markdown links [text](href) of the body, in order
TypeSafeBodyLinks1 ==
  << [text |-> <<"W", "h", "y", " ", "I", "'", "m", " ", "N", "o", " ", "L", "o", "n", "g", "e", "r", " ", "a", " ", "G", "r", "a", "p", "h", "Q", "L", " ", "M", "a", "x", "i", "m", "a", "l", "i", "s", "t">>,
      href |-> <<"/", "p", "o", "s", "t", "s", "/", "g", "r", "a", "p", "h", "q", "l", "-", "f", "r", "o", "n", "t", "e", "n", "d", "-", "l", "e", "a", "r", "n", "i", "n", "g", "s", "/">>],
     [text |-> <<"T", "a", "n", "S", "t", "a", "c", "k", " ", "Q", "u", "e", "r", "y">>,
      href |-> <<"h", "t", "t", "p", "s", ":", "/", "/", "t", "a", "n", "s", "t", "a", "c", "k", ".", "c", "o", "m", "/", "q", "u", "e", "r", "y">>] >>

\* part_000:270-276, one <<key, raw scalar text>> per line
TypeSafeFrontMatter2 ==
  << <<"title", <<"T", "y", "p", "e", "-", "S", "a", "f", "e", " ", "G", "r", "a", "p", "h", "Q", "L", " ", "W", "i", "t", "h", "o", "u", "t", " ", "E", "x", "p", "o", "s", "i", "n", "g", " ", "Y", "o", "u", "r", " ", "S", "c", "h", "e", "m", "a">>>>,
     <<"description", <<"H", "o", "w", " ", "t", "o", " ", "s", "e", "t", " ", "u", "p", " ", "g", "r", "a", "p", "h", "q", "l", "-", "r", "e", "q", "u", "e", "s", "t", " ", "a", "n", "d", " ", "G", "r", "a", "p", "h", "Q", "L", " ", "C", "o", "d", "e", " ", "G", "e", "n", "e", "r", "a", "t", "o", "r", " ", "i", "n", " ", "a", " ", "B", "F", "F", " ", "p", "a", "t", "t", "e", "r", "n", " ", "s", "o", " ", "y", "o", "u", " ", "g", "e", "t", " ", "f", "u", "l", "l", " ", "t", "y", "p", "e", " ", "s", "a", "f", "e", "t", "y", " ", "w", "i", "t", "h", "o", "u", "t", " ", "l", "e", "a", "k", "i", "n", "g", " ", "y", "o", "u", "r", " ", "s", "c", "h", "e", "m", "a", " ", "t", "o", " ", "t", "h", "e", " ", "b", "r", "o", "w", "s", "e", "r", ".">>>>,
     <<"publishDate", <<"D", "e", "c", "e", "m", "b", "e", "r", " ", "1", "7", ",", " ", "2", "0", "2", "5">>>>,
     <<"tags", <<"[", "\"", "s", "o", "f", "t", "w", "a", "r", "e", " ", "d", "e", "v", "e", "l", "o", "p", "m", "e", "n", "t", "\"", ",", " ", "\"", "g", "r", "a", "p", "h", "q", "l", "\"", ",", " ", "\"", "t", "y", "p", "e", "s", "c", "r", "i", "p", "t", "\"", "]">>>>,
     <<"draft", <<"t", "r", "u", "e">>>> >>

\* part_000:277-509, the markdown links [text](href) of the body, in order
TypeSafeBodyLinks2 ==
  << [text |-> <<"W", "h", "y", " ", "I", "'", "m", " ", "N", "o", " ", "L", "o", "n", "g", "e", "r", " ", "a", " ", "G", "r", "a", "p", "h", "Q", "L", " ", "M", "a", "x", "i", "m", "a", "l", "i", "s", "t">>,
      href |-> <<"/", "p", "o", "s", "t", "s", "/", "g", "r", "a", "p", "h", "q", "l", "-", "f", "r", "o", "n", "t", "e", "n", "d", "-", "l", "e", "a", "r", "n", "i", "n", "g", "s", "/">>] >>

\* posts_source with a day the month does not have in the first block
posts_february30 ==
  << [frontmatter |-> [MaximalistFrontMatter EXCEPT ![3] =
                         <<"publishDate", <<"F", "e", "b", "r", "u", "a", "r", "y", " ", "3", "0", ",", " ", "2", "0", "2", "5">>>>],
      links |-> MaximalistBodyLinks],
     [frontmatter |-> TypeSafeFrontMatter1,  links |-> TypeSafeBodyLinks1],
     [frontmatter |-> TypeSafeFrontMatter2,  links |-> TypeSafeBodyLinks2] >>

\* posts_source with a tag written twice in the first block
posts_duplicateTag ==
  << [frontmatter |-> [MaximalistFrontMatter EXCEPT ![4] =
                         <<"tags", <<"[", "\"", "g", "r", "a", "p", "h", "q", "l", "\"", ",", " ", "\"", "s", "o", "f", "t", "w", "a", "r", "e", " ", "d", "e", "v", "e", "l", "o", "p", "m", "e", "n", "t", "\"", ",", " ", "\"", "g", "r", "a", "p", "h", "q", "l", "\"", "]">>>>],
      links |-> MaximalistBodyLinks],
     [frontmatter |-> TypeSafeFrontMatter1,  links |-> TypeSafeBodyLinks1],
     [frontmatter |-> TypeSafeFrontMatter2,  links |-> TypeSafeBodyLinks2] >>

\* posts_source with a link from the first post's body to the other post
posts_linkBack ==
  << [frontmatter |-> MaximalistFrontMatter,
      links |-> << [text |-> TypeSafeFrontMatter1[1][2],
                    href |-> <<"/", "p", "o", "s", "t", "s", "/", "t", "y", "p", "e", "-", "s", "a", "f", "e", "-", "g", "r", "a", "p", "h", "q", "l", "/">>] >>],
     [frontmatter |-> TypeSafeFrontMatter1,  links |-> TypeSafeBodyLinks1],
     [frontmatter |-> TypeSafeFrontMatter2,  links |-> TypeSafeBodyLinks2] >>

\* the post files, each a front-matter block followed by a body
posts_source ==
  << [frontmatter |-> MaximalistFrontMatter, links |-> MaximalistBodyLinks],
     [frontmatter |-> TypeSafeFrontMatter1,  links |-> TypeSafeBodyLinks1],
     [frontmatter |-> TypeSafeFrontMatter2,  links |-> TypeSafeBodyLinks2] >>

(* ---------------------------------------------------------------------- *)
(* Reading a front-matter scalar                                          *)
(* ---------------------------------------------------------------------- *)

\* the items of a flow sequence ["a", "b"]: every double-quoted run of
\* characters is one string item, in order of occurrence
RECURSIVE FlowItems(_, _, _, _, _)
FlowItems(s, pos, inQuote, cur, acc) ==
  IF pos > Len(s) THEN acc
  ELSE IF inQuote
       THEN IF s[pos] = "\""
            THEN FlowItems(s, pos + 1, FALSE, <<>>, Append(acc, StrV(cur)))
            ELSE FlowItems(s, pos + 1, TRUE, Append(cur, s[pos]), acc)
       ELSE IF s[pos] = "\""
            THEN FlowItems(s, pos + 1, TRUE, <<>>, acc)
            ELSE FlowItems(s, pos + 1, FALSE, cur, acc)

\* the value a front-matter line `key: raw` denotes: true / false are
\* booleans, [ ... ] is a sequence, any other text is a string
YamlValue(raw) ==
  IF raw = <<"t", "r", "u", "e">> THEN BoolV(TRUE)
  ELSE IF raw = <<"f", "a", "l", "s", "e">> THEN BoolV(FALSE)
  ELSE IF raw # <<>> /\ raw[1] = "[" THEN ArrV(FlowItems(raw, 1, FALSE, <<>>, <<>>))
  ELSE StrV(raw)

(* ---------------------------------------------------------------------- *)
(* State                                                                  *)
(* ---------------------------------------------------------------------- *)

VARIABLES
  pc,        \* the unit being evaluated ("projects", "bookData", "posts"),
             \* "idle" between two units, "done" when nothing is left
  pending,   \* the units not yet evaluated
  i,         \* index of the element (record or post) being evaluated
  k,         \* number of properties / front-matter lines of it evaluated so far
  obj,       \* the object under construction
  links,     \* the links of the current post body read so far
  projects,  \* the `projects` array
  bookData,  \* the `bookData` array
  posts      \* the posts read so far

vars == <<pc, pending, i, k, obj, links, projects, bookData, posts>>

\* the three units of content; they do not import one another, so the
\* order in which they are evaluated is not fixed by the source
Units == {"projects", "bookData", "posts"}

Init ==
  /\ pc = "idle"
  /\ pending = Units
  /\ i = 1
  /\ k = 0
  /\ obj = EmptyObject
  /\ links = <<>>
  /\ projects = <<>>
  /\ bookData = <<>>
  /\ posts = <<>>

\* the next unit starts being evaluated
Begin ==
  /\ pc = "idle"
  /\ \E u \in pending :
       /\ pc' = u
       /\ pending' = pending \ {u}
  /\ UNCHANGED <<i, k, obj, links, projects, bookData, posts>>

\* `projects` (resp. `bookData`, the posts) is completely evaluated
ProjectsDefined == "projects" \notin pending /\ pc # "projects"
BookDataDefined == "bookData" \notin pending /\ pc # "bookData"
PostsRead == "posts" \notin pending /\ pc # "posts"

(* ---------------------------------------------------------------------- *)
(* Evaluation of `projects`                                               *)
(* ---------------------------------------------------------------------- *)

\* the next property of the current project record is evaluated
EvalProjectProperty ==
  /\ pc = "projects"
  /\ i <= Len(projects_literal)
  /\ k < Len(projects_literal[i])
  /\ obj' = SetProperty(obj, projects_literal[i][k + 1][1], projects_literal[i][k + 1][2])
  /\ k' = k + 1
  /\ UNCHANGED <<pc, pending, i, links, projects, bookData, posts>>

\* PushProject placing the finished record in front of the others
PushProject_unshift ==
  /\ pc = "projects"
  /\ i <= Len(projects_literal)
  /\ k = Len(projects_literal[i])
  /\ projects' = <<obj>> \o projects
  /\ obj' = EmptyObject
  /\ i' = i + 1
  /\ k' = 0
  /\ UNCHANGED <<pc, pending, links, bookData, posts>>

\* the closing brace: the finished record becomes the next array element
PushProject ==
  /\ pc = "projects"
  /\ i <= Len(projects_literal)
  /\ k = Len(projects_literal[i])
  /\ projects' = Append(projects, obj)
  /\ obj' = EmptyObject
  /\ i' = i + 1
  /\ k' = 0
  /\ UNCHANGED <<pc, pending, links, bookData, posts>>

\* the closing bracket: `projects` is defined and exported
ExportProjects ==
  /\ pc = "projects"
  /\ i > Len(projects_literal)
  /\ pc' = "idle"
  /\ i' = 1
  /\ UNCHANGED <<pending, k, obj, links, projects, bookData, posts>>

(* ---------------------------------------------------------------------- *)
(* Evaluation of `bookData`                                               *)
(* ---------------------------------------------------------------------- *)

EvalBookProperty ==
  /\ pc = "bookData"
  /\ i <= Len(bookData_literal)
  /\ k < Len(bookData_literal[i])
  /\ obj' = SetProperty(obj, bookData_literal[i][k + 1][1], bookData_literal[i][k + 1][2])
  /\ k' = k + 1
  /\ UNCHANGED <<pc, pending, i, links, projects, bookData, posts>>

PushBook ==
  /\ pc = "bookData"
  /\ i <= Len(bookData_literal)
  /\ k = Len(bookData_literal[i])
  /\ bookData' = Append(bookData, obj)
  /\ obj' = EmptyObject
  /\ i' = i + 1
  /\ k' = 0
  /\ UNCHANGED <<pc, pending, links, projects, posts>>

ExportBookData ==
  /\ pc = "bookData"
  /\ i > Len(bookData_literal)
  /\ pc' = "idle"
  /\ i' = 1
  /\ UNCHANGED <<pending, k, obj, links, projects, bookData, posts>>

(* ---------------------------------------------------------------------- *)
(* Reading the posts                                                      *)
(* ---------------------------------------------------------------------- *)

\* the next `key: value` line of the current front-matter block
ReadFrontMatterLine ==
  /\ pc = "posts"
  /\ i <= Len(posts_source)
  /\ k < Len(posts_source[i].frontmatter)
  /\ obj' = SetProperty(obj, posts_source[i].frontmatter[k + 1][1],
                        YamlValue(posts_source[i].frontmatter[k + 1][2]))
  /\ k' = k + 1
  /\ UNCHANGED <<pc, pending, i, links, projects, bookData, posts>>

\* after the closing ---, the next link of the body
ReadBodyLink ==
  /\ pc = "posts"
  /\ i <= Len(posts_source)
  /\ k = Len(posts_source[i].frontmatter)
  /\ Len(links) < Len(posts_source[i].links)
  /\ links' = Append(links, posts_source[i].links[Len(links) + 1])
  /\ UNCHANGED <<pc, pending, i, k, obj, projects, bookData, posts>>

\* end of file: the post joins the collection
AddPost ==
  /\ pc = "posts"
  /\ i <= Len(posts_source)
  /\ k = Len(posts_source[i].frontmatter)
  /\ Len(links) = Len(posts_source[i].links)
  /\ posts' = Append(posts, [data |-> obj, links |-> links])
  /\ obj' = EmptyObject
  /\ links' = <<>>
  /\ i' = i + 1
  /\ k' = 0
  /\ UNCHANGED <<pc, pending, projects, bookData>>

\* the last post is read
PublishPosts ==
  /\ pc = "posts"
  /\ i > Len(posts_source)
  /\ pc' = "idle"
  /\ i' = 1
  /\ UNCHANGED <<pending, k, obj, links, projects, bookData, posts>>

\* every unit is evaluated: the content is complete
Finish ==
  /\ pc = "idle"
  /\ pending = {}
  /\ pc' = "done"
  /\ UNCHANGED <<pending, i, k, obj, links, projects, bookData, posts>>

Next ==
  \/ Begin
  \/ EvalProjectProperty
  \/ PushProject
  \/ ExportProjects
  \/ EvalBookProperty
  \/ PushBook
  \/ ExportBookData
  \/ ReadFrontMatterLine
  \/ ReadBodyLink
  \/ AddPost
  \/ PublishPosts
  \/ Finish

Spec == Init /\ [][Next]_vars

(* ---------------------------------------------------------------------- *)
(* Shapes of text                                                         *)
(* ---------------------------------------------------------------------- *)

Digits == {"0", "1", "2", "3", "4", "5", "6", "7", "8", "9"}

HexDigits == Digits \cup {"a", "b", "c", "d", "e", "f", "A", "B", "C", "D", "E", "F"}

Letters ==
  {"a", "b", "c", "d", "e", "f", "g", "h", "i", "j", "k", "l", "m",
   "n", "o", "p", "q", "r", "s", "t", "u", "v", "w", "x", "y", "z",
   "A", "B", "C", "D", "E", "F", "G", "H", "I", "J", "K", "L", "M",
   "N", "O", "P", "Q", "R", "S", "T", "U", "V", "W", "X", "Y", "Z"}

IsString(v) == v.type = "string"

NonEmptyString(v) == IsString(v) /\ Len(v.val) > 0

\* # followed by 3 or 6 hexadecimal digits
IsHexColor(s) ==
  /\ Len(s) \in {4, 7}
  /\ s[1] = "#"
  /\ \A n \in 2..Len(s) : s[n] \in HexDigits

\* scheme "://" host ...: the scheme starts with a letter and consists of
\* letters, digits, +, - and . ; the host is not empty
IsURL(s) ==
  \E p \in 2..(Len(s) - 3) :
    /\ SubSeq(s, p, p + 2) = <<":", "/", "/">>
    /\ s[1] \in Letters
    /\ \A q \in 1..(p - 1) : s[q] \in Letters \cup Digits \cup {"+", "-", "."}
    /\ s[p + 3] \notin {"/", "?", "#", ":", " "}

(* ---------------------------------------------------------------------- *)
(* Project records                                                        *)
(* ---------------------------------------------------------------------- *)

ProjectFields == {"name", "description", "accent", "repo", "live", "image"}

\* C1: every record in `projects` has a non-empty name, a non-empty
\* description and a non-empty accent.
C1_ProjectsCoreFieldsNonEmpty ==
  \A j \in 1..Len(projects) :
    \A f \in {"name", "description", "accent"} :
      f \in DOMAIN projects[j] /\ NonEmptyString(projects[j][f])

\* the array is defined with all its records, the last one named
C1_Witness ==
  /\ ProjectsDefined
  /\ Len(projects) = 6
  /\ projects[6].name = NICComplaintsHub[1][2]
  /\ Len(projects[6].name.val) = 18

\* C4: every record in `projects` has all six fields name, description,
\* accent, repo, live and image, each holding a string.
C4_ProjectsAllFieldsPresent ==
  \A j \in 1..Len(projects) :
    /\ ProjectFields \subseteq DOMAIN projects[j]
    /\ \A f \in ProjectFields : IsString(projects[j][f])

\* the record whose properties are written in another order is complete too
C4_Witness ==
  /\ Len(projects) >= 2
  /\ DOMAIN projects[2] = ProjectFields
  /\ projects[2].name = YenkoStudio[1][2]
  /\ projects[2].accent = YenkoStudio[6][2]

\* C6: in every record of `projects`, repo, live and image are each the
\* empty string or a URL.
C6_ProjectLinksEmptyOrURL ==
  \A j \in 1..Len(projects) :
    \A f \in {"repo", "live", "image"} :
      f \in DOMAIN projects[j] =>
        /\ IsString(projects[j][f])
        /\ projects[j][f].val = <<>> \/ IsURL(projects[j][f].val)

\* both cases occur: an empty repo and a live URL
C6_Witness ==
  /\ Len(projects) >= 1
  /\ projects[1].repo.val = <<>>
  /\ projects[1].live.val # <<>>
  /\ IsURL(projects[1].live.val)

\* C7: in every record of `projects`, accent is a hex color string.
C7_ProjectAccentHexColor ==
  \A j \in 1..Len(projects) :
    "accent" \in DOMAIN projects[j] =>
      IsString(projects[j].accent) /\ IsHexColor(projects[j].accent.val)

\* all six records are evaluated, each with a six-digit color
C7_Witness ==
  /\ Len(projects) = 6
  /\ \A j \in 1..6 : Len(projects[j].accent.val) = 7 /\ projects[j].accent.val[1] = "#"

(* ---------------------------------------------------------------------- *)
(* Book records                                                           *)
(* ---------------------------------------------------------------------- *)

BookFields == {"title", "author", "status"}

\* the three reading states
Statuses ==
  { <<"U", "p", " ", "N", "e", "x", "t">>,
    <<"R", "e", "a", "d", "i", "n", "g">>,
    <<"F", "i", "n", "i", "s", "h", "e", "d">> }

\* C2: every record in `bookData` has a status that is exactly one of
\* "Up Next", "Reading" or "Finished".
C2_BookStatusEnumerated ==
  \A j \in 1..Len(bookData) :
    /\ "status" \in DOMAIN bookData[j]
    /\ IsString(bookData[j].status)
    /\ bookData[j].status.val \in Statuses

\* the array is defined and each of the three values occurs in it
C2_Witness ==
  /\ BookDataDefined
  /\ Len(bookData) = 18
  /\ \A s \in Statuses : \E j \in 1..Len(bookData) : bookData[j].status.val = s

\* C10: every record in `bookData` consists of exactly the fields title,
\* author and status, title and author being strings; there is no
\* identifier field and no reference to another record.
C10_BookExactlyThreeFields ==
  \A j \in 1..Len(bookData) :
    /\ DOMAIN bookData[j] = BookFields
    /\ IsString(bookData[j].title)
    /\ IsString(bookData[j].author)

\* the last record is evaluated, with its three fields
C10_Witness ==
  /\ Len(bookData) = 18
  /\ DOMAIN bookData[18] = BookFields
  /\ bookData[18].title = BookFiftyFifty[1][2]
  /\ bookData[18].author = BookFiftyFifty[2][2]

(* ---------------------------------------------------------------------- *)
(* Immutability                                                           *)
(* ---------------------------------------------------------------------- *)

\* the object an object literal denotes
RECURSIVE ObjectOf(_)
ObjectOf(pairs) ==
  IF pairs = <<>> THEN EmptyObject
  ELSE SetProperty(ObjectOf(SubSeq(pairs, 1, Len(pairs) - 1)),
                   pairs[Len(pairs)][1], pairs[Len(pairs)][2])

\* the array an array literal denotes: its elements in source order
ArrayOf(literal) == [j \in 1..Len(literal) |-> ObjectOf(literal[j])]

\* C5: once defined, `projects` and `bookData` never change: in every
\* state they equal their authored contents, in the authored order, and no
\* step creates, mutates or destroys a record of a defined collection.
C5_CollectionsImmutable ==
  /\ [](ProjectsDefined => projects = ArrayOf(projects_literal))
  /\ [](BookDataDefined => bookData = ArrayOf(bookData_literal))
  /\ [][ /\ ProjectsDefined => projects' = projects
         /\ BookDataDefined => bookData' = bookData ]_vars

\* both collections are defined and the evaluation has gone on since
C5_Witness ==
  /\ ProjectsDefined
  /\ BookDataDefined
  /\ pc = "posts"
  /\ Len(posts) >= 1
  /\ Len(projects) = 6
  /\ Len(bookData) = 18

(* ---------------------------------------------------------------------- *)
(* Calendar dates written as "Month D, YYYY"                              *)
(* ---------------------------------------------------------------------- *)

MonthNames ==
  << <<"J", "a", "n", "u", "a", "r", "y">>,
     <<"F", "e", "b", "r", "u", "a", "r", "y">>,
     <<"M", "a", "r", "c", "h">>,
     <<"A", "p", "r", "i", "l">>,
     <<"M", "a", "y">>,
     <<"J", "u", "n", "e">>,
     <<"J", "u", "l", "y">>,
     <<"A", "u", "g", "u", "s", "t">>,
     <<"S", "e", "p", "t", "e", "m", "b", "e", "r">>,
     <<"O", "c", "t", "o", "b", "e", "r">>,
     <<"N", "o", "v", "e", "m", "b", "e", "r">>,
     <<"D", "e", "c", "e", "m", "b", "e", "r">> >>

\* the words of a text: its maximal runs between single spaces
RECURSIVE Words(_, _, _, _)
Words(s, pos, cur, acc) ==
  IF pos > Len(s) THEN Append(acc, cur)
  ELSE IF s[pos] = " "
       THEN Words(s, pos + 1, <<>>, Append(acc, cur))
       ELSE Words(s, pos + 1, Append(cur, s[pos]), acc)

AllDigits(s) == s # <<>> /\ \A n \in 1..Len(s) : s[n] \in Digits

DigitSeq == <<"0", "1", "2", "3", "4", "5", "6", "7", "8", "9">>

DigitVal(c) == (CHOOSE n \in 1..10 : DigitSeq[n] = c) - 1

\* the number a decimal numeral denotes
RECURSIVE NatOf(_)
NatOf(s) ==
  IF s = <<>> THEN 0
  ELSE 10 * NatOf(SubSeq(s, 1, Len(s) - 1)) + DigitVal(s[Len(s)])

IsLeapYear(y) == (y % 4 = 0 /\ y % 100 # 0) \/ y % 400 = 0

DaysInMonth(m, y) ==
  IF m = 2 THEN (IF IsLeapYear(y) THEN 29 ELSE 28)
  ELSE IF m \in {4, 6, 9, 11} THEN 30
  ELSE 31

\* "Month D, YYYY" with an English month name and a day that month has
ValidDate(s) ==
  LET w == Words(s, 1, <<>>, <<>>) IN
    /\ Len(w) = 3
    /\ \E m \in 1..12 : MonthNames[m] = w[1]
    /\ Len(w[2]) >= 2
    /\ w[2][Len(w[2])] = ","
    /\ AllDigits(SubSeq(w[2], 1, Len(w[2]) - 1))
    /\ AllDigits(w[3])
    /\ LET m == CHOOSE n \in 1..12 : MonthNames[n] = w[1]
           d == NatOf(SubSeq(w[2], 1, Len(w[2]) - 1))
           y == NatOf(w[3])
       IN  1 <= d /\ d <= DaysInMonth(m, y)

(* ---------------------------------------------------------------------- *)
(* Blog posts                                                             *)
(* ---------------------------------------------------------------------- *)

PostFields == {"title", "description", "publishDate", "tags", "draft"}

\* C3: every front-matter block has a non-empty title and a publishDate
\* that denotes a valid calendar date.
C3_PostTitleAndDate ==
  \A a \in 1..Len(posts) :
    /\ {"title", "publishDate"} \subseteq DOMAIN posts[a].data
    /\ NonEmptyString(posts[a].data.title)
    /\ IsString(posts[a].data.publishDate)
    /\ ValidDate(posts[a].data.publishDate.val)

\* the three blocks are read, each dated December 17, 2025
C3_Witness ==
  /\ Len(posts) = 3
  /\ \A a \in 1..3 :
       LET w == Words(posts[a].data.publishDate.val, 1, <<>>, <<>>) IN
         /\ w[1] = MonthNames[12]
         /\ NatOf(SubSeq(w[2], 1, Len(w[2]) - 1)) = 17
         /\ NatOf(w[3]) = 2025

\* no element of a sequence occurs twice in it
NoDuplicates(seq) ==
  \A m, n \in 1..Len(seq) : seq[m] = seq[n] => m = n

\* C8: every front-matter block carries title, description, publish date,
\* tags and draft; tags is a collection of strings in which no tag occurs
\* twice, and draft is a boolean.
C8_PostFrontMatterShape ==
  \A a \in 1..Len(posts) :
    /\ PostFields \subseteq DOMAIN posts[a].data
    /\ posts[a].data.tags.type = "array"
    /\ \A n \in 1..Len(posts[a].data.tags.val) : IsString(posts[a].data.tags.val[n])
    /\ NoDuplicates(posts[a].data.tags.val)
    /\ posts[a].data.draft.type = "boolean"
    /\ posts[a].data.draft.val \in BOOLEAN

\* a published post with two tags and a draft with three are read
C8_Witness ==
  /\ \E a \in 1..Len(posts) :
       posts[a].data.draft.val = FALSE /\ Len(posts[a].data.tags.val) = 2
  /\ \E a \in 1..Len(posts) :
       posts[a].data.draft.val = TRUE /\ Len(posts[a].data.tags.val) = 3

(* ---------------------------------------------------------------------- *)
(* Links between posts                                                    *)
(* ---------------------------------------------------------------------- *)

\* the site route under which the posts are served
PostRoute == <<"/", "p", "o", "s", "t", "s", "/">>

IsPostRoute(href) == Len(href) >= Len(PostRoute) /\ SubSeq(href, 1, Len(PostRoute)) = PostRoute

\* sub occurs in s
Contains(s, sub) ==
  \E n \in 1..(Len(s) - Len(sub) + 1) : SubSeq(s, n, n + Len(sub) - 1) = sub

\* the title a front-matter block gives
TitleOf(frontmatter) ==
  YamlValue(frontmatter[CHOOSE n \in 1..Len(frontmatter) : frontmatter[n][1] = "title"][2]).val

\* the titles of the posts of the site
SitePostTitles == { TitleOf(posts_source[a].frontmatter) : a \in 1..Len(posts_source) }

\* a text mentions a post route or the title of a post other than `own`
MentionsOtherPost(text, own) ==
  \/ Contains(text, PostRoute)
  \/ \E t \in SitePostTitles \ {own} : Contains(text, t)

\* the positions of the links of a post's body that lead to another post:
\* the target is a post route, or the link text is another post's title
CrossPostLinks(p) ==
  { n \in 1..Len(p.links) :
      \/ IsPostRoute(p.links[n].href)
      \/ p.links[n].text \in SitePostTitles \ {p.data.title.val} }

\* a front-matter value (a string, or a string among the tags) mentions
\* another post
FrontMatterRefersToPost(p) ==
  \E f \in DOMAIN p.data :
    \/ p.data[f].type = "string" /\ f # "title"
         /\ MentionsOtherPost(p.data[f].val, p.data.title.val)
    \/ p.data[f].type = "array"
         /\ \E n \in 1..Len(p.data[f].val) :
              MentionsOtherPost(p.data[f].val[n].val, p.data.title.val)

\* C9 as stated: no post, front-matter or body, refers to or links to
\* another post of the site.
C9_NoCrossPostRelationships ==
  \A a \in 1..Len(posts) :
    /\ ~FrontMatterRefersToPost(posts[a])
    /\ CrossPostLinks(posts[a]) = {}

\* C9 as the posts have it: no front-matter block refers to another post,
\* and the only link between posts is the one from the body of "Type-Safe
\* GraphQL Without Exposing Your Schema" (in each of its blocks) to "Why I'm
\* No Longer a GraphQL Maximalist" at /posts/graphql-frontend-learnings/ ;
\* the body of the latter links to no post.
C9_OnlyLinkToPreviousPost ==
  \A a \in 1..Len(posts) :
    /\ ~FrontMatterRefersToPost(posts[a])
    /\ \/ /\ posts[a].data.title.val = TitleOf(MaximalistFrontMatter)
          /\ CrossPostLinks(posts[a]) = {}
       \/ /\ posts[a].data.title.val = TitleOf(TypeSafeFrontMatter1)
          /\ \E n \in 1..Len(posts[a].links) :
               /\ CrossPostLinks(posts[a]) = {n}
               /\ posts[a].links[n].text = TitleOf(MaximalistFrontMatter)
               /\ posts[a].links[n].href =
                    <<"/", "p", "o", "s", "t", "s", "/", "g", "r", "a", "p", "h", "q", "l", "-", "f", "r", "o", "n", "t", "e", "n", "d", "-", "l", "e", "a", "r", "n", "i", "n", "g", "s", "/">>

\* all posts are read: one without and two with the link to the other post
C9_Witness ==
  /\ PostsRead
  /\ Len(posts) = 3
  /\ Cardinality({a \in 1..3 : CrossPostLinks(posts[a]) = {}}) = 1
  /\ Cardinality({a \in 1..3 : Cardinality(CrossPostLinks(posts[a])) = 1}) = 2

(* ---------------------------------------------------------------------- *)
(* Keys and reachability                                                  *)
(* ---------------------------------------------------------------------- *)

\* C11: project names are pairwise distinct: no two records of `projects`
\* have the same name.
C11_ProjectNamesDistinct ==
  \A m, n \in 1..Len(projects) :
    projects[m].name = projects[n].name => m = n

\* the array is defined and its six records carry six names
C11_Witness ==
  /\ ProjectsDefined
  /\ Len(projects) = 6
  /\ Cardinality({ projects[j].name.val : j \in 1..6 }) = 6

\* C12: blog post titles are pairwise distinct: no two front-matter blocks
\* carry the same title.
C12_PostTitlesDistinct ==
  \A a, b \in 1..Len(posts) :
    posts[a].data.title = posts[b].data.title => a = b

\* C13: every record in `projects` has at least one non-empty link: repo
\* or live is a non-empty string.
C13_ProjectHasLink ==
  \A j \in 1..Len(projects) :
    /\ {"repo", "live"} \subseteq DOMAIN projects[j]
    /\ NonEmptyString(projects[j].repo) \/ NonEmptyString(projects[j].live)

\* every record is evaluated; none has a repo, so each rests on its live link
C13_Witness ==
  /\ Len(projects) = 6
  /\ \A j \in 1..6 : projects[j].repo.val = <<>> /\ Len(projects[j].live.val) > 0

====
